---- MODULE Spec2Model ----
(***************************************************************************)
(* Model of chef.py, the Thoughtful Learning sushi chef: the fetcher       *)
(* make_request with its retry loop and cookie store, the URL resolver     *)
(* make_fully_qualified_url, the filename deriver derive_filename, the     *)
(* blacklist test is_blacklisted and the minilesson category loop with     *)
(* download_content_node.                                                  *)
(*                                                                         *)
(* Python strings are sequences of one-character strings.                  *)
(***************************************************************************)
EXTENDS Naturals, Integers, Sequences, FiniteSets, TLC

VARIABLES
    \* ---- resolver run ----
    raw_ref,        \* the reference handed to make_fully_qualified_url
    resolved,       \* the value it returned
    resolve_done,   \* TRUE once the call has returned
    \* ---- blacklist run ----
    url_blacklist,  \* the module global url_blacklist
    bl_url,         \* the url handed to is_blacklisted
    bl_result,      \* the value it returned
    bl_done,        \* TRUE once the call has returned
    \* ---- filename run ----
    issued,         \* the tokens uuid4 has handed out so far
    derived,        \* the derive_filename calls made: records [url, token, filename]
    derive_calls,   \* how many derive_filename calls have returned
    \* ---- the chef's run: categories, rows, download_content_node ----
    pc,             \* where the run stands: main, row, page, assets, thumb
    rows,           \* the hrefs of the rows of the current category
    row_i,          \* the row the loop is at
    scraped_urls,   \* the local scraped_urls of download_minilesson_category
    invoked,        \* the urls download_content_node was called with, in order
    children,       \* the children of the current category_node
    page,           \* download_content_node: the response of the page fetch
    index_html,     \* download_content_node: what was written to index.html
    assets_todo,    \* download_static_assets: the assets of the page still to fetch
    \* ---- make_request ----
    mr_pc,          \* idle, get, sleep, returned, raised
    mr_url,         \* its url argument
    cookies,        \* sess.cookies
    entry_cookies,  \* what sess.cookies held when the current call began
    retry_count,    \* its local retry_count
    response,       \* its local response
    raised,         \* the exception that left make_request, or "none"
    log             \* the GETs and sleeps of the current call, in order

resolveVars == <<raw_ref, resolved, resolve_done>>
blacklistVars == <<url_blacklist, bl_url, bl_result, bl_done>>
deriveVars == <<issued, derived, derive_calls>>
pureRunVars == <<pc, rows, row_i, scraped_urls, invoked, children, page,
                 index_html, assets_todo>>
pureVars == <<resolveVars, blacklistVars, deriveVars>>
runVars == <<pureRunVars, pureVars>>
fetchVars == <<mr_pc, mr_url, cookies, entry_cookies, retry_count, response, raised, log>>

vars == <<runVars, fetchVars>>

\* the value of each group of variables while another run is the one modelled
ResolveIdle ==
    /\ raw_ref = <<>>
    /\ resolved = <<>>
    /\ resolve_done = FALSE

BlacklistIdle ==
    /\ bl_url = <<>>
    /\ bl_result = FALSE
    /\ bl_done = FALSE

DeriveIdle ==
    /\ issued = {}
    /\ derived = {}
    /\ derive_calls = 0

RunIdle ==
    /\ pc = "idle"
    /\ rows = <<>>
    /\ row_i = 1
    /\ scraped_urls = {}
    /\ invoked = <<>>
    /\ children = <<>>
    /\ page = [status_code |-> 0, content |-> "none"]
    /\ index_html = [html |-> "none"]
    /\ assets_todo = {}
    /\ mr_pc = "idle"
    /\ mr_url = <<>>
    /\ cookies = {}
    /\ entry_cookies = {}
    /\ retry_count = 0
    /\ response = [status_code |-> 0, content |-> "none"]
    /\ raised = "none"
    /\ log = <<>>

(***************************************************************************)
(* Strings                                                                 *)
(***************************************************************************)

\* str.startswith(prefix)
StartsWith(s, prefix) ==
    /\ Len(prefix) <= Len(s)
    /\ SubSeq(s, 1, Len(prefix)) = prefix

\* s[n:] for 0 <= n
DropFirst(s, n) == IF n >= Len(s) THEN <<>> ELSE SubSeq(s, n + 1, Len(s))

\* all strings over alphabet A of length at most n
RECURSIVE StringsUpTo(_, _)
StringsUpTo(A, n) ==
    IF n = 0 THEN {<<>>}
    ELSE LET shorter == StringsUpTo(A, n - 1)
         IN  shorter \cup {Append(s, c) : s \in shorter, c \in A}

(***************************************************************************)
(* Case, substrings and character search                                   *)
(***************************************************************************)

UpperCaseLetters ==
    {"A", "B", "C", "D", "E", "F", "G", "H", "I", "J", "K", "L", "M", "N", "O", "P", "Q", "R", "S", "T", "U", "V", "W", "X", "Y", "Z"}

LowerCaseLetters ==
    {"a", "b", "c", "d", "e", "f", "g", "h", "i", "j", "k", "l", "m", "n", "o", "p", "q", "r", "s", "t", "u", "v", "w", "x", "y", "z"}

Digits == {"0", "1", "2", "3", "4", "5", "6", "7", "8", "9"}

LowerChar(c) ==
    CASE c = "A" -> "a"
      [] c = "B" -> "b"
      [] c = "C" -> "c"
      [] c = "D" -> "d"
      [] c = "E" -> "e"
      [] c = "F" -> "f"
      [] c = "G" -> "g"
      [] c = "H" -> "h"
      [] c = "I" -> "i"
      [] c = "J" -> "j"
      [] c = "K" -> "k"
      [] c = "L" -> "l"
      [] c = "M" -> "m"
      [] c = "N" -> "n"
      [] c = "O" -> "o"
      [] c = "P" -> "p"
      [] c = "Q" -> "q"
      [] c = "R" -> "r"
      [] c = "S" -> "s"
      [] c = "T" -> "t"
      [] c = "U" -> "u"
      [] c = "V" -> "v"
      [] c = "W" -> "w"
      [] c = "X" -> "x"
      [] c = "Y" -> "y"
      [] c = "Z" -> "z"
      [] OTHER -> c

\* str.lower()
Lower(s) == [i \in 1..Len(s) |-> LowerChar(s[i])]

\* the Python test "item in s"
Contains(item, s) ==
    \E i \in 0..(Len(s) - Len(item)) : SubSeq(s, i + 1, i + Len(item)) = item

\* str.find(c, start) for a one-character c, 1-based; 0 when c does not occur
Find(s, c, start) ==
    IF \E i \in start..Len(s) : s[i] = c
    THEN CHOOSE i \in start..Len(s) : s[i] = c /\ \A j \in start..(i - 1) : s[j] # c
    ELSE 0

\* str.rfind(c) for a one-character c, 1-based; 0 when c does not occur
RFind(s, c) ==
    IF \E i \in 1..Len(s) : s[i] = c
    THEN CHOOSE i \in 1..Len(s) : s[i] = c /\ \A j \in (i + 1)..Len(s) : s[j] # c
    ELSE 0

\* str.replace(old, new) for one-character old and new
Replace(s, old, new) == [i \in 1..Len(s) |-> IF s[i] = old THEN new ELSE s[i]]

(***************************************************************************)
(* Blacklist                                                               *)
(***************************************************************************)

url_blacklist_configured ==
    << <<"a", "n", "a", "l", "y", "t", "i", "c", "s", ".", "j", "s">>,
       <<"i", "n", "f", "o", "c", "u", "s", "b", "a", "c", "k", "g", "r", "o", "u", "n", "d", ".", "p", "n", "g">>,
       <<"m", "e", "n", "u", "i", "c", "o", "n", ".", "s", "v", "g">>,
       <<"e", "l", "a", "s", "p", "a", "n", ".", "p", "n", "g">>,
       <<"s", "e", "l", "s", "p", "a", "n", ".", "p", "n", "g">>,
       <<"2", "1", "c", "s", "p", "a", "n", ".", "p", "n", "g">>,
       <<"j", "s", "_", "g", "w", "q", "7", "i", "q", "j", "i", "q", "f", "3", "e", "n", "c", "z", "o", "x", "f", "u", "y", "e", "l", "w", "4", "6", "y", "9", "c", "q", "c", "l", "0", "d", "u", "c", "3", "f", "h", "2", "k", "k", "u", "8", ".", "j", "s">>,
       <<"w", "r", "i", "t", "e", "r", "s", "e", "x", "p", "r", "e", "s", "s", "b", "a", "c", "k", "g", "r", "o", "u", "n", "d", ".", "p", "n", "g">>,
       <<"n", "e", "w", "s", "l", "e", "t", "t", "e", "r", "d", "i", "n", "o", ".", "p", "n", "g">>,
       <<"i", "n", "q", "u", "i", "r", "e", "c", "o", "v", "e", "r", "s", "p", "a", "n", ".", "p", "n", "g">>,
       <<"j", "q", "u", "e", "r", "y", ".", "m", "i", "n", ".", "j", "s">>,
       <<"t", "l", "s", "t", "u", "d", "e", "n", "t", "s", ".", "j", "p", "g">>,
       <<"b", "u", "t", "t", "o", "n", "s", ".", "j", "s">>,
       <<"i", "n", "q", "u", "i", "r", "e", "p", "l", "a", "n", "e", ".", "p", "n", "g">>,
       <<"p", "l", "a", "t", "f", "o", "r", "m", ".", "j", "s">>,
       <<"p", "r", "o", "c", "e", "s", "s", "e", "d", "i", "t", ".", "p", "n", "g">>,
       <<"j", "s", "_", "b", "l", "x", "o", "t", "n", "s", "2", "y", "t", "7", "y", "g", "l", "f", "9", "q", "r", "i", "9", "l", "9", "a", "m", "f", "d", "n", "k", "q", "f", "n", "n", "-", "_", "a", "d", "b", "t", "w", "3", "s", "i", "e", ".", "j", "s">>,
       <<"p", "r", "o", "c", "e", "s", "s", "p", "r", "e", "w", "r", "i", "t", "e", ".", "p", "n", "g">>,
       <<"w", "r", "i", "t", "e", "r", "s", "e", "x", "p", "r", "e", "s", "s", "f", "i", "s", "h", ".", "p", "n", "g">>,
       <<"e", "l", "a", "s", "t", "u", "d", "e", "n", "t", ".", "j", "p", "g">>,
       <<"o", "p", "e", "n", "e", "r", "_", "c", "h", "p", "t", "3", ".", "j", "p", "g">>,
       <<"i", "n", "q", "u", "i", "r", "e", "s", "k", "y", ".", "p", "n", "g">>,
       <<"p", "r", "o", "c", "e", "s", "s", "p", "u", "b", "l", "i", "s", "h", ".", "p", "n", "g">>,
       <<"p", "r", "o", "c", "e", "s", "s", "w", "r", "i", "t", "e", ".", "p", "n", "g">>,
       <<"p", "r", "o", "c", "e", "s", "s", "r", "e", "v", "i", "s", "e", ".", "p", "n", "g">>,
       <<"o", "p", "e", "n", "e", "r", "_", "c", "h", "p", "t", "1", ".", "j", "p", "g">>,
       <<"i", "n", "q", "u", "i", "r", "e", "t", "o", ".", "p", "n", "g">> >>

\* faulty variant: the url is compared as it is, not lower-cased
is_blacklisted_no_lower(url) ==
    \E k \in 1..Len(url_blacklist) : Contains(url_blacklist[k], url)

is_blacklisted(url) ==
    \E k \in 1..Len(url_blacklist) : Contains(url_blacklist[k], Lower(url))

\* ---- the urls and the lists the blacklist run draws from ----

MaxUrlLen == 3

UrlAlphabet == {"j", "J", "s", "S", "."}

AnalyticsJs == <<"a", "n", "a", "l", "y", "t", "i", "c", "s", ".", "j", "s">>

GaAnalyticsUrl ==
    <<"h", "t", "t", "p", ":", "/", "/", "x", "/", "g", "a", "-",
      "a", "n", "a", "l", "y", "t", "i", "c", "s", ".", "j", "s">>

BlacklistUrls ==
    StringsUpTo(UrlAlphabet, MaxUrlLen) \cup
    { GaAnalyticsUrl,
      <<"H", "T", "T", "P", ":", "/", "/", "X", "/", "G", "A", "-",
        "A", "N", "A", "L", "Y", "T", "I", "C", "S", ".", "J", "S">>,
      <<"h", "t", "t", "p", ":", "/", "/", "x", "/", "j", "q", "u", "e", "r", "y", ".",
        "m", "i", "n", ".", "j", "s">>,
      <<"h", "t", "t", "p", ":", "/", "/", "x", "/", "a", ".", "p", "n", "g">> }

Blacklists ==
    { url_blacklist_configured,
      <<>>,
      <<AnalyticsJs>>,
      << <<"A", "n", "a", "l", "y", "t", "i", "c", "s", ".", "j", "s">> >>,
      << <<"j", "s">> >>,
      << <<"J", "S">> >>,
      << <<".", "j">>, <<"s", "s">> >>,
      << <<".", "J">>, <<"s", ".">> >> }

\* ---- the blacklist run: one call of is_blacklisted ----

InitBlacklist ==
    /\ url_blacklist \in Blacklists
    /\ bl_url \in BlacklistUrls
    /\ bl_result = FALSE
    /\ bl_done = FALSE
    /\ ResolveIdle
    /\ DeriveIdle
    /\ RunIdle

CheckBlacklist ==
    /\ ~bl_done
    /\ bl_result' = is_blacklisted(bl_url)
    /\ bl_done' = TRUE
    /\ UNCHANGED <<url_blacklist, bl_url, resolveVars, deriveVars, pureRunVars, fetchVars>>

NextBlacklist == CheckBlacklist

SpecBlacklist == InitBlacklist /\ [][NextBlacklist]_vars

\* item occurs in url when the case of both is ignored
OccursIgnoringCase(item, url) ==
    \E i \in 0..(Len(url) - Len(item)) :
        \A j \in 1..Len(item) : LowerChar(url[i + j]) = LowerChar(item[j])

HasUpperCase(s) == \E i \in 1..Len(s) : s[i] \in UpperCaseLetters

\* C7 as stated: is_blacklisted(url) is true exactly when some entry of the
\* list occurs in url with the case of both the url and the entry ignored, for
\* every list.
C7_CaseInsensitiveBothSides ==
    bl_done =>
        (bl_result <=>
            \E k \in 1..Len(url_blacklist) : OccursIgnoringCase(url_blacklist[k], bl_url))

\* C7 amended: is_blacklisted(url) is true exactly when some entry that holds no
\* upper-case letter occurs in url with the case of the url ignored (an entry
\* holding an upper-case letter never matches); for the configured list, whose
\* entries are all lower-case, that is every entry; and a url ending in
\* ga-analytics.js is blacklisted by the list ["analytics.js"].
C7_CaseInsensitiveUrlOnly ==
    bl_done =>
        /\ bl_result <=>
              \E k \in 1..Len(url_blacklist) :
                  /\ ~HasUpperCase(url_blacklist[k])
                  /\ OccursIgnoringCase(url_blacklist[k], bl_url)
        /\ url_blacklist = url_blacklist_configured =>
              /\ \A k \in 1..Len(url_blacklist) : ~HasUpperCase(url_blacklist[k])
              /\ bl_result <=>
                    \E k \in 1..Len(url_blacklist) :
                        OccursIgnoringCase(url_blacklist[k], bl_url)
        /\ (url_blacklist = <<AnalyticsJs>> /\ bl_url = GaAnalyticsUrl) => bl_result

C7_Witness ==
    /\ bl_done
    /\ bl_result
    /\ url_blacklist = url_blacklist_configured
    /\ bl_url # Lower(bl_url)
    /\ Contains(AnalyticsJs, Lower(bl_url))

(***************************************************************************)
(* URL resolver                                                            *)
(***************************************************************************)

base == <<"h", "t", "t", "p", "s", ":", "/", "/", "k", "1", "2", ".",
          "t", "h", "o", "u", "g", "h", "t", "f", "u", "l",
          "l", "e", "a", "r", "n", "i", "n", "g", ".", "c", "o", "m">>

DotDotImages == <<".", ".", "/", "i", "m", "a", "g", "e", "s">>
DotDotScripts == <<".", ".", "/", "s", "c", "r", "i", "p", "t", "s">>
Http == <<"h", "t", "t", "p">>

\* faulty variant: the protocol-relative test comes after the root-relative test
make_fully_qualified_url_slash_first(url) ==
    IF StartsWith(url, DotDotImages) THEN base \o DropFirst(url, 2)
    ELSE IF StartsWith(url, DotDotScripts) THEN base \o DropFirst(url, 2)
    ELSE IF StartsWith(url, <<"/">>) THEN base \o url
    ELSE IF StartsWith(url, <<"/", "/">>) THEN <<"h", "t", "t", "p", ":">> \o url
    ELSE IF ~StartsWith(url, Http) THEN base \o <<"/">> \o url
    ELSE url

\* faulty variant: the two "../" branches are missing
make_fully_qualified_url_no_dotdot(url) ==
    IF StartsWith(url, <<"/", "/">>) THEN <<"h", "t", "t", "p", ":">> \o url
    ELSE IF StartsWith(url, <<"/">>) THEN base \o url
    ELSE IF ~StartsWith(url, Http) THEN base \o <<"/">> \o url
    ELSE url

make_fully_qualified_url(url) ==
    IF StartsWith(url, DotDotImages) THEN base \o DropFirst(url, 2)
    ELSE IF StartsWith(url, DotDotScripts) THEN base \o DropFirst(url, 2)
    ELSE IF StartsWith(url, <<"/", "/">>) THEN <<"h", "t", "t", "p", ":">> \o url
    ELSE IF StartsWith(url, <<"/">>) THEN base \o url
    ELSE IF ~StartsWith(url, Http) THEN base \o <<"/">> \o url
    ELSE url

\* ---- the references the resolver run draws from ----

MaxTail == 2

TailAlphabet == {"/", ".", "h", "a"}

RefPrefixes ==
    { <<>>,
      DotDotImages, DotDotScripts,
      <<".", ".", "/", "i", "m", "a", "g", "e">>,
      <<".", ".", "/", "s", "c", "r", "i", "p", "t">>,
      <<".", ".">>, <<".", ".", "/">>, <<".", "/">>,
      <<"/">>, <<"/", "/">>,
      <<"h", "t", "t">>, Http, <<"H", "T", "T", "P">>,
      <<"h", "t", "t", "p", "s", ":", "/", "/">> }

ExampleImages == <<".", ".", "/", "i", "m", "a", "g", "e", "s", "/", "a", ".", "p", "n", "g">>
ExampleProtocolRelative ==
    <<"/", "/", "c", "d", "n", ".", "e", "x", "a", "m", "p", "l", "e", ".", "c", "o", "m",
      "/", "x", ".", "j", "s">>
ExampleRootRelative == <<"/", "f", "o", "o">>
ExampleRelative == <<"b", "a", "r", ".", "p", "n", "g">>
ExampleAbsolute ==
    <<"h", "t", "t", "p", "s", ":", "/", "/", "o", "t", "h", "e", "r", ".", "c", "o", "m",
      "/", "y">>

Examples ==
    {ExampleImages, ExampleProtocolRelative, ExampleRootRelative, ExampleRelative,
     ExampleAbsolute}

Refs == {p \o t : p \in RefPrefixes, t \in StringsUpTo(TailAlphabet, MaxTail)} \cup Examples

\* ---- the resolver run: one call of make_fully_qualified_url ----

InitResolve ==
    /\ raw_ref \in Refs
    /\ resolved = <<>>
    /\ resolve_done = FALSE
    /\ url_blacklist = url_blacklist_configured
    /\ BlacklistIdle
    /\ DeriveIdle
    /\ RunIdle

Resolve ==
    /\ ~resolve_done
    /\ resolved' = make_fully_qualified_url(raw_ref)
    /\ resolve_done' = TRUE
    /\ UNCHANGED <<raw_ref, blacklistVars, deriveVars, pureRunVars, fetchVars>>

NextResolve == Resolve

SpecResolve == InitResolve /\ [][NextResolve]_vars

\* ---- the resolver of the specification: five rules, first match wins ----

RuleMatches(rule, ref) ==
    CASE rule = 1 -> StartsWith(ref, DotDotImages) \/ StartsWith(ref, DotDotScripts)
      [] rule = 2 -> StartsWith(ref, <<"/", "/">>)
      [] rule = 3 -> StartsWith(ref, <<"/">>)
      [] rule = 4 -> ~StartsWith(ref, Http)
      [] rule = 5 -> TRUE

RuleResult(rule, ref) ==
    CASE rule = 1 -> base \o SubSeq(ref, 3, Len(ref))
      [] rule = 2 -> <<"h", "t", "t", "p", ":">> \o ref
      [] rule = 3 -> base \o ref
      [] rule = 4 -> base \o <<"/">> \o ref
      [] rule = 5 -> ref

\* the rules tried in the given order
OrderedResolver(order, ref) ==
    LET first == CHOOSE i \in 1..Len(order) :
                    /\ RuleMatches(order[i], ref)
                    /\ \A j \in 1..(i - 1) : ~RuleMatches(order[j], ref)
    IN  RuleResult(order[first], ref)

IsSpecialForm(ref) == StartsWith(ref, DotDotImages) \/ StartsWith(ref, DotDotScripts)

\* C4: make_fully_qualified_url returns what the five rules, tried in the order
\* 1..5 with the first match winning, return; and the five example references
\* resolve to their expected absolute URLs.
C4_ResolverRules ==
    resolve_done =>
        /\ resolved = OrderedResolver(<<1, 2, 3, 4, 5>>, raw_ref)
        /\ raw_ref = ExampleImages =>
              resolved = base \o <<"/", "i", "m", "a", "g", "e", "s", "/", "a", ".", "p", "n", "g">>
        /\ raw_ref = ExampleProtocolRelative =>
              resolved = <<"h", "t", "t", "p", ":">> \o ExampleProtocolRelative
        /\ raw_ref = ExampleRootRelative => resolved = base \o <<"/", "f", "o", "o">>
        /\ raw_ref = ExampleRelative =>
              resolved = base \o <<"/", "b", "a", "r", ".", "p", "n", "g">>
        /\ raw_ref = ExampleAbsolute => resolved = ExampleAbsolute

C4_Witness ==
    /\ resolve_done
    /\ raw_ref = ExampleProtocolRelative
    /\ resolved = <<"h", "t", "t", "p", ":", "/", "/", "c", "d", "n", ".", "e", "x", "a", "m",
                    "p", "l", "e", ".", "c", "o", "m", "/", "x", ".", "j", "s">>

\* C9 as stated: for a reference starting with ../images or ../scripts, trying
\* the "starts with /" rule before the "../" rule gives another result than
\* make_fully_qualified_url.
C9_SlashBeforeDotDotDiffers ==
    (resolve_done /\ IsSpecialForm(raw_ref)) =>
        OrderedResolver(<<3, 1, 2, 4, 5>>, raw_ref) # resolved

\* C9 amended: for a reference starting with ../images or ../scripts, trying the
\* "does not start with http" rule before the "../" rule gives another result
\* than make_fully_qualified_url, while trying the "starts with /" rule first
\* gives the same result.
C9_HttpBeforeDotDotDiffers ==
    (resolve_done /\ IsSpecialForm(raw_ref)) =>
        /\ OrderedResolver(<<2, 3, 4, 1, 5>>, raw_ref) # resolved
        /\ OrderedResolver(<<4, 1, 2, 3, 5>>, raw_ref) # resolved
        /\ OrderedResolver(<<3, 1, 2, 4, 5>>, raw_ref) = resolved
        /\ OrderedResolver(<<2, 3, 1, 4, 5>>, raw_ref) = resolved

C9_Witness ==
    /\ resolve_done
    /\ raw_ref = DotDotScripts \o <<"/", "a">>
    /\ resolved = base \o <<"/", "s", "c", "r", "i", "p", "t", "s", "/", "a">>
    /\ OrderedResolver(<<2, 3, 4, 1, 5>>, raw_ref) = base \o <<"/">> \o raw_ref

(***************************************************************************)
(* Filename deriver                                                        *)
(***************************************************************************)

\* urllib.parse: the characters a scheme may hold
SchemeChars == LowerCaseLetters \cup UpperCaseLetters \cup Digits \cup {"+", "-", "."}

\* urllib.parse.uses_params, the schemes whose last segment may carry ";params"
UsesParams ==
    { <<>>, <<"f", "t", "p">>, <<"h", "d", "l">>,
      <<"p", "r", "o", "s", "p", "e", "r", "o">>, Http, <<"i", "m", "a", "p">>,
      <<"h", "t", "t", "p", "s">>, <<"s", "h", "t", "t", "p">>, <<"r", "t", "s", "p">>,
      <<"r", "t", "s", "p", "u">>, <<"s", "i", "p">>, <<"s", "i", "p", "s">>,
      <<"m", "m", "s">>, <<"s", "f", "t", "p">>, <<"t", "e", "l">> }

\* s[:i-1], the part of s before 1-based position i
Before(s, i) == SubSeq(s, 1, i - 1)

\* urlsplit, step 1: <<scheme, rest>>
SplitScheme(url) ==
    LET i == Find(url, ":", 1)
    IN  IF i > 1 /\ \A j \in 1..(i - 1) : url[j] \in SchemeChars
        THEN <<Lower(Before(url, i)), DropFirst(url, i)>>
        ELSE <<<<>>, url>>

\* urlsplit, step 2 (_splitnetloc): the rest after "//netloc"
DropNetloc(rest) ==
    IF StartsWith(rest, <<"/", "/">>)
    THEN LET ends == {i \in 3..Len(rest) : rest[i] \in {"/", "?", "#"}}
         IN  IF ends = {} THEN <<>>
             ELSE DropFirst(rest, (CHOOSE i \in ends : \A j \in ends : i <= j) - 1)
    ELSE rest

\* urlsplit, steps 3 and 4: cut the fragment, then the query
DropFragment(rest) ==
    LET i == Find(rest, "#", 1) IN IF i > 0 THEN Before(rest, i) ELSE rest

DropQuery(rest) ==
    LET i == Find(rest, "?", 1) IN IF i > 0 THEN Before(rest, i) ELSE rest

\* urlparse (_splitparams): cut ";params" off the last segment
DropParams(scheme, path) ==
    IF scheme \in UsesParams /\ Find(path, ";", 1) > 0
    THEN LET slash == RFind(path, "/")
             i == IF slash > 0 THEN Find(path, ";", slash) ELSE Find(path, ";", 1)
         IN  IF i > 0 THEN Before(path, i) ELSE path
    ELSE path

\* urlparse(url).path
urlparse_path(url) ==
    LET split == SplitScheme(url)
    IN  DropParams(split[1], DropQuery(DropFragment(DropNetloc(split[2]))))

\* os.path.basename(p)
basename(p) == DropFirst(p, RFind(p, "/"))

\* faulty variant: the token is left out of the name
derive_filename_no_token(url, token) ==
    Lower(Replace(basename(urlparse_path(url)), "%", "_"))

\* faulty variant: only the basename is lower-cased and cleaned, not the whole name
derive_filename_raw_name(url, token) ==
    token \o <<".">> \o basename(urlparse_path(url))

\* derive_filename, with the value of uuid.uuid4().hex as a parameter
derive_filename(url, token) ==
    LET name == Replace(basename(urlparse_path(url)), "%", "_")
    IN  Lower(token \o <<".">> \o name)

\* ---- the tokens and the urls the filename run draws from ----

TokenLen == 2

MaxDerive == 2

HexDigitsUsed == {"0", "f"}

\* the values uuid.uuid4().hex takes: strings of TokenLen lower-case hex digits
Tokens == {t \in StringsUpTo(HexDigitsUsed, TokenLen) : Len(t) = TokenLen}

DeriveUrls ==
    { <<"h", "t", "t", "p", ":", "/", "/", "x", "/", "A", ".", "p", "n", "g">>,
      <<"h", "t", "t", "p", ":", "/", "/", "y", "/", "A", ".", "p", "n", "g">>,
      <<"h", "t", "t", "p", ":", "/", "/", "x", "/", "a", ".", "p", "n", "g">>,
      <<"/", "d", "/", "a", "%", "2", "0", "b", ".", "P", "N", "G">>,
      <<"h", "t", "t", "p", ":", "/", "/", "x", "/", "a", ".", "p", "n", "g", "?", "v", "=", "%", "4", "1", "/", "B">>,
      <<"h", "t", "t", "p", ":", "/", "/", "x", "/", "d", "/", "c", ";", "P", "#", "F", "/", "G">>,
      <<"h", "t", "t", "p", ":", "/", "/", "X", "%">>,
      <<"%", "A", ".", "p", "n", "g">> }

\* ---- the filename run: derive_filename called again and again ----

InitDerive ==
    /\ issued = {}
    /\ derived = {}
    /\ derive_calls = 0
    /\ url_blacklist = url_blacklist_configured
    /\ ResolveIdle
    /\ BlacklistIdle
    /\ RunIdle

\* one call derive_filename(url); uuid4 hands out a token it has not handed out
Derive ==
    /\ derive_calls < MaxDerive
    /\ \E url \in DeriveUrls, token \in Tokens \ issued :
          /\ issued' = issued \cup {token}
          /\ derived' = derived \cup
                {[url |-> url, token |-> token, filename |-> derive_filename(url, token)]}
    /\ derive_calls' = derive_calls + 1
    /\ UNCHANGED <<resolveVars, blacklistVars, pureRunVars, fetchVars>>

NextDerive == Derive

SpecDerive == InitDerive /\ [][NextDerive]_vars

\* the last path segment of a url: what follows the last "/" of the url once
\* its scheme, host, query and fragment are set aside
IsLastSegmentOf(seg, path) ==
    /\ \A i \in 1..Len(seg) : seg[i] # "/"
    /\ \/ path = seg
       \/ /\ Len(path) > Len(seg)
          /\ path[Len(path) - Len(seg)] = "/"
          /\ SubSeq(path, Len(path) - Len(seg) + 1, Len(path)) = seg

\* the suffixes of a string
Suffixes(s) == {DropFirst(s, k) : k \in 0..Len(s)}

\* C5: no two derive_filename calls of a run return the same filename, be it for
\* two urls, for two urls with the same basename or for one url derived twice.
C5_NoTwoCallsCollide ==
    /\ Cardinality({d.filename : d \in derived}) = derive_calls
    /\ \A d1, d2 \in derived : d1 # d2 => d1.filename # d2.filename

C5_Witness ==
    /\ derive_calls = 2
    /\ \E d1, d2 \in derived :
          /\ d1.url = d2.url
          /\ d1.token # d2.token
          /\ d1.filename # d2.filename

\* C6 as stated: the filename holds no "%" and no upper-case letter and is the
\* token followed at once by the lower-cased, cleaned last path segment.
C6_TokenThenBasename ==
    \A d \in derived :
        /\ \A i \in 1..Len(d.filename) : d.filename[i] \notin UpperCaseLetters \cup {"%"}
        /\ LET path == urlparse_path(d.url)
           IN  \E seg \in Suffixes(path) :
                  /\ IsLastSegmentOf(seg, path)
                  /\ d.filename = d.token \o Lower(Replace(seg, "%", "_"))

\* C6 amended: the filename holds no "%" and no upper-case letter and is the
\* token, a "." and the last path segment with every "%" replaced by "_",
\* lower-cased.
C6_TokenDotBasename ==
    \A d \in derived :
        /\ \A i \in 1..Len(d.filename) : d.filename[i] \notin UpperCaseLetters \cup {"%"}
        /\ LET path == urlparse_path(d.url)
           IN  \E seg \in Suffixes(path) :
                  /\ IsLastSegmentOf(seg, path)
                  /\ d.filename = d.token \o <<".">> \o Lower(Replace(seg, "%", "_"))

C6_Witness ==
    \E d \in derived :
        /\ d.url = <<"/", "d", "/", "a", "%", "2", "0", "b", ".", "P", "N", "G">>
        /\ d.filename = d.token \o <<".", "a", "_", "2", "0", "b", ".", "p", "n", "g">>

(***************************************************************************)
(* Fetcher: make_request                                                   *)
(***************************************************************************)

max_retries == 5

CookieNames == {"sid"}

StatusCodes == {200, 404}

Contents == {"body1", "body2"}

NoResponse == [status_code |-> 0, content |-> "none"]

GetEvent(sent, set, outcome, resp) ==
    [kind |-> "get", sent |-> sent, set |-> set, outcome |-> outcome,
     status_code |-> resp.status_code, content |-> resp.content, secs |-> 0]

SleepEvent(secs) ==
    [kind |-> "sleep", sent |-> {}, set |-> {}, outcome |-> "slept",
     status_code |-> 0, content |-> "none", secs |-> secs]

\* faulty variant: the cookie store is never cleared
make_request_enter_keep_cookies(url, clear_cookies) ==
    /\ entry_cookies' = cookies
    /\ cookies' = cookies
    /\ retry_count' = 0
    /\ mr_url' = url
    /\ response' = NoResponse
    /\ raised' = "none"
    /\ log' = <<>>
    /\ mr_pc' = "get"

\* make_request up to its loop: clear the cookies, retry_count = 0
make_request_enter(url, clear_cookies) ==
    /\ entry_cookies' = cookies
    /\ cookies' = IF clear_cookies THEN {} ELSE cookies
    /\ retry_count' = 0
    /\ mr_url' = url
    /\ response' = NoResponse
    /\ raised' = "none"
    /\ log' = <<>>
    /\ mr_pc' = "get"

\* the caller takes the returned response: the locals of the call are gone
make_request_leave ==
    /\ mr_pc' = "idle"
    /\ mr_url' = <<>>
    /\ entry_cookies' = {}
    /\ retry_count' = 0
    /\ response' = NoResponse
    /\ log' = <<>>
    /\ UNCHANGED <<cookies, raised>>

\* sess.get completes with some status: break, then return response
GetCompletes ==
    /\ mr_pc = "get"
    /\ \E status \in StatusCodes, content \in Contents, set \in SUBSET CookieNames :
          LET resp == [status_code |-> status, content |-> content]
          IN  /\ response' = resp
              /\ cookies' = cookies \cup set
              /\ log' = Append(log, GetEvent(cookies, set, "completed", resp))
    /\ mr_pc' = "returned"
    /\ UNCHANGED <<retry_count, mr_url, raised, entry_cookies, runVars>>

\* sess.get raises ConnectionError or ReadTimeout: retry_count += 1
GetFails ==
    /\ mr_pc = "get"
    /\ \E e \in {"ConnectionError", "ReadTimeout"}, set \in SUBSET CookieNames :
          /\ cookies' = cookies \cup set
          /\ log' = Append(log, GetEvent(cookies, set, "failed", NoResponse))
    /\ retry_count' = retry_count + 1
    /\ mr_pc' = "sleep"
    /\ UNCHANGED <<response, mr_url, raised, entry_cookies, runVars>>

\* sess.get raises an exception the except clause does not name
GetRaisesOther ==
    /\ mr_pc = "get"
    /\ \E set \in SUBSET CookieNames :
          /\ cookies' = cookies \cup set
          /\ log' = Append(log, GetEvent(cookies, set, "raised", NoResponse))
    /\ raised' = "RequestException"
    /\ mr_pc' = "raised"
    /\ UNCHANGED <<response, retry_count, mr_url, entry_cookies, runVars>>

\* faulty variant: the retries stop one failure later
Sleep_one_more_retry ==
    /\ mr_pc = "sleep"
    /\ log' = Append(log, SleepEvent(retry_count * 1))
    /\ IF retry_count > max_retries
       THEN /\ raised' = "NameError"
            /\ mr_pc' = "raised"
       ELSE /\ raised' = raised
            /\ mr_pc' = "get"
    /\ UNCHANGED <<cookies, response, retry_count, mr_url, entry_cookies, runVars>>

\* faulty variant: every delay lasts one unit
Sleep_constant_delay ==
    /\ mr_pc = "sleep"
    /\ log' = Append(log, SleepEvent(1))
    /\ IF retry_count >= max_retries
       THEN /\ raised' = "NameError"
            /\ mr_pc' = "raised"
       ELSE /\ raised' = raised
            /\ mr_pc' = "get"
    /\ UNCHANGED <<cookies, response, retry_count, mr_url, entry_cookies, runVars>>

\* time.sleep(retry_count * 1), then the test of retry_count; the name
\* Dummy404ResponseObject is bound nowhere, so evaluating it raises NameError
Sleep ==
    /\ mr_pc = "sleep"
    /\ log' = Append(log, SleepEvent(retry_count * 1))
    /\ IF retry_count >= max_retries
       THEN /\ raised' = "NameError"
            /\ mr_pc' = "raised"
       ELSE /\ raised' = raised
            /\ mr_pc' = "get"
    /\ UNCHANGED <<cookies, response, retry_count, mr_url, entry_cookies, runVars>>

(***************************************************************************)
(* Minilesson category loop and download_content_node                      *)
(***************************************************************************)

MaxRows == 2

\* the href of the title link of a row
Hrefs == { <<"/", "a">>, <<"a">>, <<"/", "b">> }

RowSeqs == UNION {[1..n -> Hrefs] : n \in 0..MaxRows}

\* the static assets a page refers to
PageAssets == {base \o <<"/", "s", ".", "c", "s", "s">>}

\* whether the page holds an iframe under .embedded-video
HasVideo(content) == content = "body2"

ThumbnailUrl == base \o <<"/", "t", ".", "p", "n", "g">>

NotWritten == [html |-> "none"]

\* faulty variant: the page is written only when its status is 200
IndexHtml_only_200(page_response) ==
    IF page_response.status_code = 200
    THEN [html |-> page_response.content]
    ELSE NotWritten

\* what download_content_node writes to index.html for the response of the
\* page fetch: the parsed, localised and pruned document
IndexHtml(page_response) == [html |-> page_response.content]

\* download_minilesson_category is called for the next pane
StartCategory ==
    /\ pc = "main"
    /\ rows' \in RowSeqs
    /\ scraped_urls' = {}
    /\ row_i' = 1
    /\ invoked' = <<>>
    /\ children' = <<>>
    /\ pc' = "row"
    /\ UNCHANGED <<page, index_html, assets_todo, fetchVars>>
    /\ UNCHANGED pureVars

\* the loop is over: download_minilesson_category returns, its locals are
\* gone, and the category node is added to the topic
CategoryReturn ==
    /\ pc = "row"
    /\ row_i > Len(rows)
    /\ pc' = "main"
    /\ rows' = <<>>
    /\ row_i' = 1
    /\ scraped_urls' = {}
    /\ invoked' = <<>>
    /\ children' = <<>>
    /\ UNCHANGED <<page, index_html, assets_todo, fetchVars>>
    /\ UNCHANGED pureVars

\* a row whose url was scraped before: continue
RowSkip ==
    /\ pc = "row"
    /\ row_i <= Len(rows)
    /\ make_fully_qualified_url(rows[row_i]) \in scraped_urls
    /\ row_i' = row_i + 1
    /\ UNCHANGED <<pc, rows, scraped_urls, invoked, children, page,
                   index_html, assets_todo, fetchVars>>
    /\ UNCHANGED pureVars

\* faulty variant: the test of scraped_urls is missing
RowDownload_no_test ==
    /\ pc = "row"
    /\ row_i <= Len(rows)
    /\ LET url == make_fully_qualified_url(rows[row_i])
       IN  /\ scraped_urls' = scraped_urls \cup {url}
           /\ invoked' = Append(invoked, url)
           /\ make_request_enter(url, TRUE)
    /\ page' = NoResponse
    /\ index_html' = NotWritten
    /\ assets_todo' = {}
    /\ pc' = "page"
    /\ UNCHANGED <<rows, row_i, children>>
    /\ UNCHANGED pureVars

\* a row with a new url: download_content_node is called and fetches the page
RowDownload ==
    /\ pc = "row"
    /\ row_i <= Len(rows)
    /\ LET url == make_fully_qualified_url(rows[row_i])
       IN  /\ url \notin scraped_urls
           /\ scraped_urls' = scraped_urls \cup {url}
           /\ invoked' = Append(invoked, url)
           /\ make_request_enter(url, TRUE)
    /\ page' = NoResponse
    /\ index_html' = NotWritten
    /\ assets_todo' = {}
    /\ pc' = "page"
    /\ UNCHANGED <<rows, row_i, children>>
    /\ UNCHANGED pureVars

\* get_parsed_html_from_url returns the parsed content of the response
PageParsed ==
    /\ pc = "page"
    /\ mr_pc = "returned"
    /\ page' = response
    /\ assets_todo' = PageAssets
    /\ pc' = "assets"
    /\ make_request_leave
    /\ UNCHANGED <<rows, row_i, scraped_urls, invoked, children, index_html>>
    /\ UNCHANGED pureVars

\* download_static_assets fetches an asset of the page with request_fn
AssetFetch ==
    /\ pc = "assets"
    /\ mr_pc = "idle"
    /\ \E asset \in assets_todo : make_request_enter(asset, TRUE)
    /\ UNCHANGED runVars

\* the asset is stored
AssetStored ==
    /\ pc = "assets"
    /\ mr_pc = "returned"
    /\ assets_todo' = assets_todo \ {mr_url}
    /\ make_request_leave
    /\ UNCHANGED <<pc, rows, row_i, scraped_urls, invoked, children, page,
                   index_html>>
    /\ UNCHANGED pureVars

\* the nodes are removed, index.html is written, and download_file fetches the
\* thumbnail with request_fn
WriteIndex ==
    /\ pc = "assets"
    /\ mr_pc = "idle"
    /\ assets_todo = {}
    /\ index_html' = IndexHtml(page)
    /\ make_request_enter(ThumbnailUrl, TRUE)
    /\ pc' = "thumb"
    /\ UNCHANGED <<rows, row_i, scraped_urls, invoked, children, page,
                   assets_todo>>
    /\ UNCHANGED pureVars

\* the video node, if the page embeds one, and the app node are added;
\* download_content_node returns, its locals and its destination directory are
\* gone, and the loop goes to the next row
AddNodes ==
    /\ pc = "thumb"
    /\ mr_pc = "returned"
    /\ children' = children
          \o (IF HasVideo(page.content)
              THEN <<[kind |-> "video", source_id |-> <<>>]>> ELSE <<>>)
          \o <<[kind |-> "app", source_id |-> invoked[Len(invoked)]]>>
    /\ row_i' = row_i + 1
    /\ pc' = "row"
    /\ page' = NoResponse
    /\ index_html' = NotWritten
    /\ assets_todo' = {}
    /\ make_request_leave
    /\ UNCHANGED <<rows, scraped_urls, invoked>>
    /\ UNCHANGED pureVars

Init ==
    /\ pc = "main"
    /\ rows = <<>>
    /\ row_i = 1
    /\ scraped_urls = {}
    /\ invoked = <<>>
    /\ children = <<>>
    /\ page = NoResponse
    /\ index_html = NotWritten
    /\ assets_todo = {}
    /\ mr_pc = "idle"
    /\ mr_url = <<>>
    /\ cookies = {}
    /\ entry_cookies = {}
    /\ retry_count = 0
    /\ response = NoResponse
    /\ raised = "none"
    /\ log = <<>>
    /\ url_blacklist = url_blacklist_configured
    /\ ResolveIdle
    /\ BlacklistIdle
    /\ DeriveIdle

Next ==
    \/ StartCategory
    \/ CategoryReturn
    \/ RowSkip
    \/ RowDownload
    \/ PageParsed
    \/ AssetFetch
    \/ AssetStored
    \/ WriteIndex
    \/ AddNodes
    \/ GetCompletes
    \/ GetFails
    \/ GetRaisesOther
    \/ Sleep

Spec == Init /\ [][Next]_vars

(***************************************************************************)
(* Properties of make_request                                              *)
(***************************************************************************)

Gets == {p \in 1..Len(log) : log[p].kind = "get"}

Sleeps == {p \in 1..Len(log) : log[p].kind = "sleep"}

\* make_request has returned or raised and its caller has not gone on yet
CallOver == mr_pc \in {"returned", "raised"}

\* every GET of the current call so far failed with ConnectionError or ReadTimeout
AllGetsFailed == Gets # {} /\ \A p \in Gets : log[p].outcome = "failed"

\* C1: a make_request call whose every GET failed with a connection error or a
\* read timeout ends by returning a not-found response; it does not raise.
C1_AlwaysFailingReturnsNotFound ==
    (CallOver /\ AllGetsFailed) =>
        /\ mr_pc = "returned"
        /\ raised = "none"
        /\ response.status_code = 404

\* C2 as stated: a call whose every GET failed made exactly 5 attempts, slept
\* 1, 2, 3, 4, 5 units, and every sleep was followed by another attempt.
C2_EveryDelayBeforeAnAttempt ==
    (CallOver /\ AllGetsFailed) =>
        /\ Cardinality(Gets) = 5
        /\ Cardinality(Sleeps) = 5
        /\ \A p \in Sleeps : log[p].secs = Cardinality({q \in Sleeps : q <= p})
        /\ \A p \in Sleeps : p < Len(log) /\ log[p + 1].kind = "get"

\* C2 amended: while every GET of a call fails, failed attempts and sleeps
\* alternate and the k-th sleep, right after the k-th failed attempt, lasts k
\* units; the call ends after exactly 5 attempts and the sleeps 1, 2, 3, 4, 5,
\* the sleeps 1..4 each followed by an attempt and the 5th by none.
C2_FiveAttemptsLastDelayTrailing ==
    AllGetsFailed =>
        /\ \A p \in 1..Len(log) :
              IF p % 2 = 1
              THEN log[p].kind = "get" /\ log[p].outcome = "failed"
              ELSE log[p].kind = "sleep" /\ log[p].secs = p \div 2
        /\ Len(log) <= 2 * max_retries
        /\ mr_pc = "get" => Len(log) % 2 = 0 /\ Len(log) < 2 * max_retries
        /\ mr_pc = "sleep" => Len(log) % 2 = 1
        /\ CallOver =>
              /\ Len(log) = 2 * max_retries
              /\ Cardinality(Gets) = 5
              /\ log[Len(log)].kind = "sleep"
              /\ log[Len(log)].secs = 5

C2_Witness ==
    /\ CallOver
    /\ AllGetsFailed
    /\ Cardinality(Gets) = 5
    /\ [p \in 1..5 |-> log[2 * p].secs] = <<1, 2, 3, 4, 5>>

\* C3 as stated: every GET that is sent, each attempt of each call, is sent
\* with an empty cookie store.
C3_EveryAttemptWithoutCookies ==
    \A p \in Gets : log[p].sent = {}

\* C3 amended: the first GET of every call is sent with an empty cookie store,
\* whatever the store held when the call began; a later attempt of the call is
\* sent with exactly the cookies the earlier attempts of that call stored.
C3_FirstAttemptWithoutCookies ==
    /\ (mr_pc = "get" /\ log = <<>>) => cookies = {}
    /\ Len(log) >= 1 => (log[1].kind = "get" /\ log[1].sent = {})
    /\ \A p \in Gets : log[p].sent = UNION {log[q].set : q \in {r \in Gets : r < p}}

C3_Witness ==
    /\ entry_cookies # {}
    /\ Len(log) >= 3
    /\ log[1].sent = {}
    /\ log[1].set = {}
    /\ log[3].sent = {}

\* C8: a GET that completes with a status other than 200 ends the call at once,
\* with no sleep and no further GET after it; the call returns that response;
\* and download_content_node takes the returned response as the page and writes
\* to index.html what it writes for a 200 response with the same body.
C8_Non200ReturnedAndWritten ==
    /\ [](/\ \A p \in Gets :
                (log[p].outcome = "completed" /\ log[p].status_code # 200) =>
                    /\ p = Len(log)
                    /\ mr_pc = "returned"
                    /\ raised = "none"
                    /\ response = [status_code |-> log[p].status_code,
                                   content |-> log[p].content]
          /\ pc = "thumb" =>
                /\ index_html = [html |-> page.content]
                /\ index_html = IndexHtml([status_code |-> 200, content |-> page.content]))
    /\ [][(pc = "page" /\ mr_pc = "returned" /\ response.status_code # 200) =>
              (pc' = "assets" /\ page' = response)]_vars

C8_Witness ==
    /\ pc = "thumb"
    /\ page = [status_code |-> 404, content |-> "body1"]
    /\ index_html = [html |-> "body1"]

(***************************************************************************)
(* Properties of download_minilesson_category                              *)
(***************************************************************************)

Range(s) == {s[i] : i \in 1..Len(s)}

\* s without the elements that occurred earlier in s
RECURSIVE FirstOccurrences(_)
FirstOccurrences(s) ==
    IF s = <<>> THEN <<>>
    ELSE LET front == FirstOccurrences(SubSeq(s, 1, Len(s) - 1))
             x == s[Len(s)]
         IN  IF x \in Range(front) THEN front ELSE Append(front, x)

IsApp(node) == node.kind = "app"

\* the source ids of the app nodes of the category, in order
AppIds == LET apps == SelectSeq(children, IsApp)
          IN  [i \in 1..Len(apps) |-> apps[i].source_id]

\* the urls of the rows the loop has taken up so far
RowUrlsTaken ==
    LET n == IF pc = "row" THEN row_i - 1 ELSE row_i
    IN  [i \in 1..n |-> make_fully_qualified_url(rows[i])]

\* C10: in a category, download_content_node has been called exactly for the
\* first row of each distinct fully-qualified url, in row order, never twice
\* for one url; a row with a scraped url adds no node; scraped_urls holds the
\* urls of the rows taken up so far, so it is empty at the first row and grows.
C10_OnceForFirstRowOfEachUrl ==
    pc \in {"row", "page", "assets", "thumb"} =>
        /\ invoked = FirstOccurrences(RowUrlsTaken)
        /\ \A i, j \in 1..Len(invoked) : i # j => invoked[i] # invoked[j]
        /\ scraped_urls = Range(RowUrlsTaken)
        /\ AppIds = (IF pc = "row" THEN invoked ELSE SubSeq(invoked, 1, Len(invoked) - 1))
        /\ Len(children) <= 2 * Len(invoked)

C10_Witness ==
    /\ pc = "row"
    /\ rows = << <<"/", "a">>, <<"a">> >>
    /\ row_i = 3
    /\ invoked = << base \o <<"/", "a">> >>
    /\ AppIds = invoked

(***************************************************************************)
(* Recovery from transient failures                                        *)
(***************************************************************************)

\* the GETs of the current call that failed with ConnectionError or ReadTimeout
FailedGets == {p \in Gets : log[p].outcome = "failed"}

\* the time slept in the first n events of the current call
RECURSIVE SleptIn(_)
SleptIn(n) == IF n = 0 THEN 0 ELSE SleptIn(n - 1) + log[n].secs

\* C11: when the first k GETs of a call fail with a connection error or a read
\* timeout, 0 <= k <= 4, and GET k+1 completes, the call returns the response
\* of GET k+1 and raises nothing, after exactly k+1 GETs and 1+2+...+k units of
\* sleep, and no GET or sleep follows the completed one.
C11_TransientFailuresRecovered ==
    \A p \in Gets :
        LET k == Cardinality(FailedGets)
        IN  (log[p].outcome = "completed" /\ k <= 4 /\ FailedGets = {q \in Gets : q < p}) =>
                /\ mr_pc = "returned"
                /\ raised = "none"
                /\ response = [status_code |-> log[p].status_code, content |-> log[p].content]
                /\ response.status_code \in StatusCodes
                /\ p = Len(log)
                /\ Cardinality(Gets) = k + 1
                /\ Cardinality(Sleeps) = k
                /\ 2 * SleptIn(Len(log)) = k * (k + 1)
                /\ \A q \in Sleeps : log[q - 1].outcome = "failed" /\ log[q + 1].kind = "get"

C11_Witness ==
    /\ mr_pc = "returned"
    /\ Len(log) = 9
    /\ Cardinality(FailedGets) = 4
    /\ log[9].outcome = "completed"
    /\ response.status_code = 200
    /\ SleptIn(9) = 10

====
